---- MODULE Spec2Model ----
(***************************************************************************)
(* Model of src/config/mod.rs of tarpaulin: the configuration record, its   *)
(* construction from the command line and from a configuration file, the    *)
(* file-exclusion query with its lazily compiled matcher cache, and the     *)
(* relative-path computation path_relative_from.                            *)
(*                                                                          *)
(* A path is the sequence of its components as std::path::Path::components  *)
(* yields them: "/" is the root component (first, absolute paths only),     *)
(* "." the current-directory component (first component of a relative path  *)
(* only; components() drops every other "."), ".." the parent-directory     *)
(* component, any other string a normal component.                          *)
(***************************************************************************)
EXTENDS Integers, Sequences, FiniteSets, TLC

VARIABLES
    \* path_relative_from: the two arguments, the two component iterators,
    \* the output vector, the position in the function and its return value
    path, base, ita, itb, comps, pc, rel,
    \* Config: the raw exclusion patterns, the cache of compiled matchers and
    \* the root field; the argument and the result of the last exclude_path
    \* call, the last operation on the profile, and the paths for which
    \* exclude_path has returned true so far
    excluded_files_raw, excluded_files, root, q_path, q_result, last_op,
    returned_true,
    \* Config::from: the argument matches, the configuration file on disk,
    \* where the call ended, the profile it returned and the profiles it loaded
    args, config_file, from_pc, conf, confs

(***************************************************************************)
(* Bounds of the model                                                     *)
(***************************************************************************)
\* longest path (in components after the root) given to path_relative_from
MaxDepth == 3
\* longest list of raw exclusion patterns
MaxRaw == 3
\* longest cache of compiled matchers
MaxCache == 6

RootDir   == "/"
CurDir    == "."
ParentDir == ".."
\* normal components used for the paths given to path_relative_from
Names == {"a", "b"}

\* Option<PathBuf>: None, or Some(p)
None == [some |-> FALSE]
Some(p) == [some |-> TRUE, val |-> p]

\* Path::is_absolute / Path::is_relative
is_absolute(p) == Len(p) > 0 /\ p[1] = RootDir
is_relative(p) == ~is_absolute(p)

\* the component sequences Path::components can yield, up to n components
\* after the root
PathsUpTo(n) ==
    LET Rest(k) == [1..k -> Names \cup {ParentDir}]
        Rel == UNION {Rest(k) : k \in 0..n}
    IN  Rel
        \cup {<<CurDir>> \o r : r \in UNION {Rest(k) : k \in 0..(n - 1)}}
        \cup {<<RootDir>> \o r : r \in Rel}

(***************************************************************************)
(* path_relative_from, src/config/mod.rs:303-342                           *)
(***************************************************************************)
\* n parent-directory components
ParentDirs(n) == [i \in 1..n |-> ParentDir]

\* state of the walk on entering the loop (lines 313-315)
walk_init(p, b) == [ita |-> p, itb |-> b, comps |-> <<>>, pc |-> "loop", ret |-> None]

\* diverge with the parent step of the differing base component left out
diverge_one_short(w) ==
    [w EXCEPT !.comps = w.comps \o ParentDirs(Len(w.itb) - 1) \o w.ita,
              !.ita = <<>>, !.itb = <<>>, !.pc = "collect"]

\* the last match arm (lines 329-337): the walk diverges
diverge(w) ==
    [w EXCEPT !.comps = w.comps \o <<ParentDir>> \o ParentDirs(Len(w.itb) - 1)
                               \o w.ita,
              !.ita = <<>>, !.itb = <<>>, !.pc = "collect"]

\* walk_step without the arm of line 328: a ".." of base is taken as an
\* ordinary component
walk_step_no_parent_arm(w) ==
    IF w.ita = <<>> /\ w.itb = <<>> THEN
        [w EXCEPT !.pc = "collect"]
    ELSE IF w.itb = <<>> THEN
        [w EXCEPT !.comps = w.comps \o w.ita, !.ita = <<>>, !.pc = "collect"]
    ELSE IF w.ita = <<>> THEN
        [w EXCEPT !.comps = Append(w.comps, ParentDir), !.itb = Tail(w.itb)]
    ELSE IF w.comps = <<>> /\ Head(w.ita) = Head(w.itb) THEN
        [w EXCEPT !.ita = Tail(w.ita), !.itb = Tail(w.itb)]
    ELSE IF Head(w.itb) = CurDir THEN
        [w EXCEPT !.comps = Append(w.comps, Head(w.ita)),
                  !.ita = Tail(w.ita), !.itb = Tail(w.itb)]
    ELSE
        diverge(w)

\* one pass of the loop (lines 317-338): the match on (ita.next(), itb.next())
walk_step(w) ==
    IF w.ita = <<>> /\ w.itb = <<>> THEN
        [w EXCEPT !.pc = "collect"]
    ELSE IF w.itb = <<>> THEN
        [w EXCEPT !.comps = w.comps \o w.ita, !.ita = <<>>, !.pc = "collect"]
    ELSE IF w.ita = <<>> THEN
        [w EXCEPT !.comps = Append(w.comps, ParentDir), !.itb = Tail(w.itb)]
    ELSE IF w.comps = <<>> /\ Head(w.ita) = Head(w.itb) THEN
        [w EXCEPT !.ita = Tail(w.ita), !.itb = Tail(w.itb)]
    ELSE IF Head(w.itb) = CurDir THEN
        [w EXCEPT !.comps = Append(w.comps, Head(w.ita)),
                  !.ita = Tail(w.ita), !.itb = Tail(w.itb)]
    ELSE IF Head(w.itb) = ParentDir THEN
        [w EXCEPT !.pc = "done", !.ret = None]
    ELSE
        diverge(w)

\* line 340: the collected components become the returned path
collect(w) == [w EXCEPT !.pc = "done", !.ret = Some(w.comps)]

\* mixed with the test on the wrong path
mixed_swapped(p, b) == IF is_absolute(b) THEN Some(p) ELSE None

\* lines 306-312: the two paths differ in absoluteness
mixed(p, b) == IF is_absolute(p) THEN Some(p) ELSE None

RECURSIVE walk(_)
walk(w) ==
    IF w.pc = "done" THEN w.ret
    ELSE IF w.pc = "collect" THEN walk(collect(w))
    ELSE walk(walk_step(w))

\* the whole function
path_relative_from(p, b) ==
    IF is_absolute(p) # is_absolute(b) THEN mixed(p, b) ELSE walk(walk_init(p, b))

(***************************************************************************)
(* Path helpers used by the callers of path_relative_from                  *)
(***************************************************************************)
\* PathBuf::join (lines 200, 279): an absolute argument replaces the receiver
join(p, q) == IF is_absolute(q) THEN q ELSE p \o q

\* Path::canonicalize (lines 201, 279) on the component sequence: "." is
\* dropped, ".." removes the component before it, the root is its own parent;
\* a relative sequence keeps the ".." that lead above its start.  Symbolic
\* links are not modelled.
RECURSIVE resolve(_, _)
resolve(acc, rest) ==
    IF rest = <<>> THEN acc
    ELSE LET c == Head(rest)
             n == Len(acc)
         IN  resolve(IF c = CurDir THEN acc
                     ELSE IF c = ParentDir THEN
                          IF n = 0 \/ acc[n] = ParentDir THEN Append(acc, ParentDir)
                          ELSE IF acc[n] = RootDir THEN acc
                          ELSE SubSeq(acc, 1, n - 1)
                     ELSE Append(acc, c),
                     Tail(rest))

canonicalize(p) == resolve(<<>>, p)

(***************************************************************************)
(* Strings.  A string is the sequence of its characters.                   *)
(***************************************************************************)
\* Component::as_os_str (line 340) for the normal components the exclusion
\* queries use, and for "." and ".."
OsStr(c) ==
    CASE c = "w"            -> <<"w">>
      [] c = "src"          -> <<"s", "r", "c">>
      [] c = "module"       -> <<"m", "o", "d", "u", "l", "e">>
      [] c = "file.rs"      -> <<"f", "i", "l", "e", ".", "r", "s">>
      [] c = "mod.rs"       -> <<"m", "o", "d", ".", "r", "s">>
      [] c = "unrelated.rs" -> <<"u", "n", "r", "e", "l", "a", "t", "e", "d", ".", "r", "s">>
      [] c = "module.rs"    -> <<"m", "o", "d", "u", "l", "e", ".", "r", "s">>
      [] c = "lib.rs"       -> <<"l", "i", "b", ".", "r", "s">>
      [] c = "libxrs"       -> <<"l", "i", "b", "x", "r", "s">>
      [] c = "notlib.rs"    -> <<"n", "o", "t", "l", "i", "b", ".", "r", "s">>
      [] c = CurDir         -> <<".">>
      [] c = ParentDir      -> <<".", ".">>

\* the string of a path: its components separated by "/" (the collect of
\* line 340 followed by the to_str of line 265)
RECURSIVE to_str(_)
to_str(p) ==
    IF p = <<>> THEN <<>>
    ELSE IF Head(p) = RootDir THEN <<"/">> \o to_str(Tail(p))
    ELSE OsStr(Head(p)) \o (IF Tail(p) = <<>> THEN <<>> ELSE <<"/">> \o to_str(Tail(p)))

(***************************************************************************)
(* Compiled matchers.  regexes_from_excluded is defined in config/parse.rs; *)
(* it is modelled from the specification of `compile`: regular-expression   *)
(* metacharacters of the literal segments are escaped, every "*" becomes    *)
(* ".*", and the whole pattern is anchored.  A Regex is held as the         *)
(* characters of its source.                                                *)
(***************************************************************************)
Meta == {".", "^", "$", "\\", "+", "?", "(", ")", "[", "]", "{", "}", "|"}

RECURSIVE escape_glob(_)
escape_glob(g) ==
    IF g = <<>> THEN <<>>
    ELSE (IF Head(g) = "*" THEN <<".", "*">>
          ELSE IF Head(g) \in Meta THEN <<"\\", Head(g)>>
          ELSE <<Head(g)>>) \o escape_glob(Tail(g))

regex_from_glob(g) == <<"^">> \o escape_glob(g) \o <<"$">>

regexes_from_excluded(strs) == [i \in 1..Len(strs) |-> regex_from_glob(strs[i])]

\* Regex::is_match (line 265) for the expressions built above: "^" and "$"
\* anchors, "\c" the character c, "." any character, a following "*" any
\* number of repetitions; without "^" the match may start anywhere.
RECURSIVE match_here(_, _)
match_here(re, s) ==
    IF re = <<>> THEN TRUE
    ELSE IF re = <<"$">> THEN s = <<>>
    ELSE LET n == IF re[1] = "\\" THEN 2 ELSE 1
             fits(c) == IF re[1] = "\\" THEN c = re[2]
                        ELSE IF re[1] = "." THEN TRUE
                        ELSE c = re[1]
         IN  IF Len(re) > n /\ re[n + 1] = "*"
             THEN \E k \in 0..Len(s) :
                      /\ \A j \in 1..k : fits(s[j])
                      /\ match_here(SubSeq(re, n + 2, Len(re)), SubSeq(s, k + 1, Len(s)))
             ELSE /\ s # <<>>
                  /\ fits(s[1])
                  /\ match_here(SubSeq(re, n + 1, Len(re)), Tail(s))

is_match(re, s) ==
    IF re # <<>> /\ re[1] = "^" THEN match_here(Tail(re), s)
    ELSE \E i \in 0..Len(s) : match_here(re, SubSeq(s, i + 1, Len(s)))

(***************************************************************************)
(* Config: base directory and exclusion query, lines 254-291               *)
(***************************************************************************)
\* env::current_dir()
current_dir == <<"/", "w">>

\* Config::get_base_dir (lines 273-284); r is the root field, an Option
get_base_dir(r) ==
    IF r.some THEN
        IF is_absolute(r.val) THEN r.val
        ELSE canonicalize(join(current_dir, r.val))
    ELSE current_dir

\* Config::strip_base_dir (lines 289-291)
strip_base_dir(r, p) ==
    LET got == path_relative_from(p, get_base_dir(r))
    IN  IF got.some THEN got.val ELSE p

\* recompiled with the cache refilled instead of extended: the matchers held
\* before are dropped and only the patterns past the old length are compiled
recompiled_refilled(cache, raw) ==
    IF Len(cache) # Len(raw)
    THEN SubSeq(regexes_from_excluded(raw), Len(cache) + 1, Len(raw))
    ELSE cache

\* lines 255-259: the cache after the length check and the append
recompiled(cache, raw) ==
    IF Len(cache) # Len(raw) THEN cache \o regexes_from_excluded(raw) ELSE cache

\* lines 260-265: any cached matcher matches the string of the stripped path
any_match(cache, r, p) ==
    \E i \in 1..Len(cache) : is_match(cache[i], to_str(strip_base_dir(r, p)))

(***************************************************************************)
(* Config: construction, lines 103-246.  The record keeps the fields whose  *)
(* values tell a profile built from the command line from one read from a   *)
(* file: name, config, debug, verbose, test_timeout and the two exclusion   *)
(* fields.                                                                  *)
(***************************************************************************)
\* Duration::from_secs(60), the default test_timeout, in seconds
DefaultTimeout == 60

\* impl Default for Config (lines 103-145)
default_config ==
    [name |-> "", config |-> None, debug |-> FALSE, verbose |-> FALSE,
     test_timeout |-> DefaultTimeout,
     excluded_files |-> <<>>, excluded_files_raw |-> <<>>]

\* the record built from the command line (lines 150-193); a holds what
\* the argument matches give for each option
args_config(a) ==
    [name |-> "", config |-> None,
     debug |-> a.debug, verbose |-> a.verbose \/ a.debug,
     test_timeout |-> a.timeout,
     excluded_files |-> regexes_from_excluded(a.exclude_files),
     excluded_files_raw |-> a.exclude_files]

\* a table of the file read into a Config (the toml::from_slice of line 229
\* under #[serde(default)], lines 21-22): a field the table leaves out takes
\* its default, the compiled matchers are never read (lines 89-90)
deserialize(body) ==
    [default_config EXCEPT
        !.debug = IF body.debug.some THEN body.debug.val ELSE @,
        !.test_timeout = IF body.test_timeout.some THEN body.test_timeout.val ELSE @,
        !.excluded_files_raw =
            IF body.excluded_files_raw.some THEN body.excluded_files_raw.val ELSE @]

Ok(v) == [ok |-> TRUE, val |-> v]
Err(e) == [ok |-> FALSE, err |-> e]

\* Config::load_config_file (lines 225-246); order is the order in which the
\* HashMap yields its keys
load_config_file(f, order) ==
    IF f.state \in {"missing", "unreadable"} THEN Err("io")
    ELSE IF f.state = "malformed" THEN Err("InvalidData")
    ELSE LET result == [i \in 1..Len(order) |->
                            [deserialize(f.tables[order[i]]) EXCEPT !.name = order[i]]]
         IN  IF result = <<>> THEN Err("No config tables") ELSE Ok(result)

\* lines 209-211: every loaded profile gets the path of the file
with_config(cs, p) == [i \in 1..Len(cs) |-> [cs[i] EXCEPT !.config = Some(p)]]

\* select falling back to the default profile, not to the one of the
\* command line
select_default_on_error(a, loaded, p) ==
    IF ~loaded.ok THEN default_config
    ELSE IF with_config(loaded.val, p) = <<>> THEN default_config
    ELSE Head(with_config(loaded.val, p))

\* select returning the last loaded profile
select_last(a, loaded, p) ==
    IF ~loaded.ok THEN args_config(a)
    ELSE IF with_config(loaded.val, p) = <<>> THEN args_config(a)
    ELSE with_config(loaded.val, p)[Len(loaded.val)]

\* lines 204-217: the profile returned once the path of the file is known
select(a, loaded, p) ==
    IF ~loaded.ok THEN args_config(a)
    ELSE IF with_config(loaded.val, p) = <<>> THEN args_config(a)
    ELSE Head(with_config(loaded.val, p))

\* impl From<&ArgMatches> for Config (lines 148-221): what the call leaves
\* behind: where it ended, the profile returned and the profiles loaded
from(a, f, order) ==
    IF ~a.config.some THEN
        [pc |-> "returned", conf |-> args_config(a), confs |-> <<>>]
    ELSE IF is_relative(a.config.val) /\ f.state = "missing" THEN
        \* canonicalize fails on a file that does not exist: unwrap panics
        [pc |-> "panicked", conf |-> default_config, confs |-> <<>>]
    ELSE LET p == IF is_relative(a.config.val)
                  THEN canonicalize(join(current_dir, a.config.val))
                  ELSE a.config.val
             loaded == load_config_file(f, order)
         IN  [pc |-> "returned",
              conf |-> select(a, loaded, p),
              confs |-> IF loaded.ok THEN with_config(loaded.val, p) ELSE <<>>]

(***************************************************************************)
(* The function run one loop pass at a time                                *)
(***************************************************************************)
pathVars == <<path, base, ita, itb, comps, pc, rel>>
exclVars == <<excluded_files_raw, excluded_files, root, q_path, q_result, last_op,
              returned_true>>
fromVars == <<args, config_file, from_pc, conf, confs>>
vars == <<pathVars, exclVars, fromVars>>

\* the variables of the other operations, at rest
PathIdle ==
    /\ path = <<>> /\ base = <<>> /\ ita = <<>> /\ itb = <<>>
    /\ comps = <<>> /\ pc = "idle" /\ rel = None
ExclIdle ==
    /\ excluded_files_raw = <<>> /\ excluded_files = <<>> /\ root = None
    /\ q_path = <<>> /\ q_result = FALSE /\ last_op = "idle"
    /\ returned_true = {}
FromIdle ==
    /\ args = [debug |-> FALSE, verbose |-> FALSE, timeout |-> DefaultTimeout,
               exclude_files |-> <<>>, config |-> None]
    /\ config_file = [state |-> "missing"]
    /\ from_pc = "idle" /\ conf = default_config /\ confs = <<>>

walkState == [ita |-> ita, itb |-> itb, comps |-> comps, pc |-> pc, ret |-> rel]

SetWalk(w) ==
    /\ ita' = w.ita
    /\ itb' = w.itb
    /\ comps' = w.comps
    /\ pc' = w.pc
    /\ rel' = w.ret

InitPath ==
    /\ path \in PathsUpTo(MaxDepth)
    /\ base \in PathsUpTo(MaxDepth)
    /\ ita = <<>>
    /\ itb = <<>>
    /\ comps = <<>>
    /\ pc = "enter"
    /\ rel = None
    /\ ExclIdle
    /\ FromIdle

\* lines 306-315
Enter ==
    /\ pc = "enter"
    /\ IF is_absolute(path) # is_absolute(base)
       THEN SetWalk([walkState EXCEPT !.pc = "done", !.ret = mixed(path, base)])
       ELSE SetWalk(walk_init(path, base))
    /\ UNCHANGED <<path, base, exclVars, fromVars>>

\* lines 317-338, one pass
Iterate ==
    /\ pc = "loop"
    /\ SetWalk(walk_step(walkState))
    /\ UNCHANGED <<path, base, exclVars, fromVars>>

\* line 340
Collect ==
    /\ pc = "collect"
    /\ SetWalk(collect(walkState))
    /\ UNCHANGED <<path, base, exclVars, fromVars>>

NextPath == Enter \/ Iterate \/ Collect

SpecPath == InitPath /\ [][NextPath]_vars

(***************************************************************************)
(* Exclusion queries on one profile                                        *)
(***************************************************************************)
\* the glob patterns given as exclude-files
Globs ==
    { <<"*", "m", "o", "d", "u", "l", "e", "*">>,
      <<"*", "/", "l", "i", "b", ".", "r", "s">>,
      <<"l", "i", "b", ".", "r", "s">> }

\* the values of the root field
Roots == {None, Some(<<"/", "w", "src">>), Some(<<"src">>)}

\* the paths asked about
QueryPaths ==
    { <<"src", "module", "file.rs">>, <<"src", "mod.rs">>, <<"src", "lib.rs">>,
      <<"lib.rs">>, <<"libxrs">>, <<"/", "w", "src", "lib.rs">> }

SeqsUpTo(S, n) == UNION {[1..k -> S] : k \in 0..n}

\* A profile as constructed: built from the command line the cache holds the
\* compiled raw patterns (lines 152-153, 183-184); deserialized from a file
\* the cache is skipped and starts empty (lines 89-90, 132).
InitExclude ==
    /\ excluded_files_raw \in SeqsUpTo(Globs, MaxRaw)
    /\ excluded_files \in {regexes_from_excluded(excluded_files_raw), <<>>}
    /\ root \in Roots
    /\ q_path = <<>>
    /\ q_result = FALSE
    /\ last_op = "new"
    /\ returned_true = {}
    /\ PathIdle
    /\ FromIdle

\* Config::exclude_path (lines 254-266)
exclude_path(p) ==
    /\ Len(recompiled(excluded_files, excluded_files_raw)) <= MaxCache
    /\ excluded_files' = recompiled(excluded_files, excluded_files_raw)
    /\ q_path' = p
    /\ q_result' = any_match(excluded_files', root, p)
    /\ last_op' = "exclude_path"
    /\ returned_true' = IF q_result' THEN returned_true \cup {p} ELSE returned_true
    /\ UNCHANGED <<excluded_files_raw, root, pathVars, fromVars>>

\* the owner of the profile appends a pattern to excluded_files_raw (line 92)
push_raw(g) ==
    /\ Len(excluded_files_raw) < MaxRaw
    /\ excluded_files_raw' = Append(excluded_files_raw, g)
    /\ last_op' = "push_raw"
    /\ UNCHANGED <<excluded_files, root, q_path, q_result, returned_true, pathVars, fromVars>>

NextExclude ==
    \/ \E p \in QueryPaths : exclude_path(p)
    \/ \E g \in Globs : push_raw(g)

SpecExclude == InitExclude /\ [][NextExclude]_vars

(***************************************************************************)
(* Construction of the profile from the command line and the file          *)
(***************************************************************************)
\* the --config values given: an absolute and a relative path of the file
ConfigArgs == {None, Some(<<"/", "w", "tarpaulin.toml">>), Some(<<"tarpaulin.toml">>)}

Args ==
    [debug : BOOLEAN, verbose : BOOLEAN, timeout : {DefaultTimeout, 120},
     exclude_files : SeqsUpTo(Globs, 1), config : ConfigArgs]

\* the tables a file can hold: each field present or left out
Bodies ==
    [debug : {None, Some(TRUE)},
     test_timeout : {None, Some(30)},
     excluded_files_raw : {None, Some(<<CHOOSE g \in Globs : TRUE>>)}]

ProfileNames == {"ci", "dev"}

Files ==
    {[state |-> s] : s \in {"missing", "unreadable", "malformed"}}
    \cup {[state |-> "tables", tables |-> t] :
             t \in UNION {[K -> Bodies] : K \in SUBSET ProfileNames}}

\* the orders in which a HashMap with the keys K can yield them
Orders(K) ==
    {o \in [1..Cardinality(K) -> K] : \A i, j \in 1..Cardinality(K) : o[i] = o[j] => i = j}

KeysOf(f) == IF f.state = "tables" THEN DOMAIN f.tables ELSE {}

InitFrom ==
    /\ args \in Args
    /\ config_file \in Files
    /\ from_pc = "start"
    /\ conf = default_config
    /\ confs = <<>>
    /\ PathIdle
    /\ ExclIdle

\* Config::from(&matches)
From ==
    /\ from_pc = "start"
    /\ \E order \in Orders(KeysOf(config_file)) :
          LET got == from(args, config_file, order)
          IN  /\ from_pc' = got.pc
              /\ conf' = got.conf
              /\ confs' = got.confs
    /\ UNCHANGED <<args, config_file, pathVars, exclVars>>

NextFrom == From

SpecFrom == InitFrom /\ [][NextFrom]_vars

(***************************************************************************)
(* Properties of path_relative_from                                        *)
(***************************************************************************)
Min(m, n) == IF m <= n THEN m ELSE n

\* every component of p, the root aside, is a normal component
PlainNames(p) ==
    \A i \in 1..Len(p) : p[i] \notin {CurDir, ParentDir} /\ (p[i] = RootDir => i = 1)

\* length of the longest common leading prefix of two component sequences
CommonPrefixLen(p, b) ==
    CHOOSE n \in 0..Min(Len(p), Len(b)) :
        /\ SubSeq(p, 1, n) = SubSeq(b, 1, n)
        /\ n < Min(Len(p), Len(b)) => p[n + 1] # b[n + 1]

SameKind == is_absolute(path) = is_absolute(base)

\* C6: for path and base of the same absoluteness made of plain names, the
\* result is one ".." per base component beyond the longest common prefix,
\* then the components of path beyond that prefix, in order; the example of
\* the test (base /this/should/form/a/rel/path, path /this/should/form/b/rel/path)
\* gives ../../../b/rel/path.
C6_ParentStepsThenRemainder ==
    /\ (pc = "done" /\ SameKind /\ PlainNames(path) /\ PlainNames(base)) =>
          LET k == CommonPrefixLen(path, base)
          IN  rel = Some(ParentDirs(Len(base) - k) \o SubSeq(path, k + 1, Len(path)))
    /\ path_relative_from(<<"/", "this", "should", "form", "b", "rel", "path">>,
                          <<"/", "this", "should", "form", "a", "rel", "path">>)
          = Some(<<"..", "..", "..", "b", "rel", "path">>)

\* a walk that diverged below a common prefix: two parent steps, then the
\* rest of path
C6_Witness ==
    /\ pc = "done"
    /\ base = <<"/", "a", "a", "b">>
    /\ path = <<"/", "a", "b", "a">>
    /\ rel = Some(<<"..", "..", "b", "a">>)

\* C7: round trip: for absolute A (base) and B (path) with a common prefix
\* below the root, the returned path joined onto A and canonicalized is B
\* (B taken in its canonical form).
C7_RoundTrip ==
    (/\ pc = "done"
     /\ is_absolute(path) /\ is_absolute(base)
     /\ CommonPrefixLen(path, base) >= 2
     /\ rel.some)
    => canonicalize(join(base, rel.val)) = canonicalize(path)

\* C8 as stated: no path whenever exactly one of the two is absolute
C8_MixedAlwaysFails ==
    (pc = "done" /\ ~SameKind) => rel = None

\* C8 amended: no path when path is relative and base absolute; path itself,
\* unchanged, when path is absolute and base relative
C8_MixedFailsOnlyForRelativePath ==
    /\ (pc = "done" /\ is_relative(path) /\ is_absolute(base)) => rel = None
    /\ (pc = "done" /\ is_absolute(path) /\ is_relative(base)) => rel = Some(path)

C8_Witness ==
    /\ pc = "done"
    /\ is_absolute(path) /\ Len(path) > 1
    /\ is_relative(base) /\ Len(base) > 1
    /\ rel = Some(path)

\* a path component is being compared with a ".." of base and the pair is
\* not consumed as an identical leading component
ComparesParentDir ==
    /\ pc = "loop"
    /\ ita # <<>> /\ itb # <<>>
    /\ Head(itb) = ParentDir
    /\ ~(comps = <<>> /\ Head(ita) = Head(itb))

\* C9: a loop pass that compares a path component with a ".." of base,
\* without consuming the pair as an identical leading component, ends the
\* function with no path.
C9_ParentDirInBaseFails ==
    [][ComparesParentDir => (pc' = "done" /\ rel' = None)]_vars

\* a walk that consumed a common leading component and then met a ".." of
\* base: it ended with no path
C9_Witness ==
    /\ pc = "done"
    /\ SameKind
    /\ rel = None
    /\ ita # <<>> /\ itb # <<>> /\ Head(itb) = ParentDir
    /\ Len(base) > 2 /\ base[1] = "a"
    /\ Len(path) > 2 /\ path[1] = "a"

\* C10: for a relative path and a relative base that starts with "." (both
\* otherwise made of plain names), the result denotes, from base, the
\* location that the result computed for base without the "." denotes.
C10_CurDirTransparent ==
    (/\ pc = "done"
     /\ is_relative(path) /\ path # <<>> /\ PlainNames(path)
     /\ base # <<>> /\ base[1] = CurDir /\ PlainNames(Tail(base))
     /\ path_relative_from(path, Tail(base)).some)
    => /\ rel.some
       /\ resolve(Tail(base), rel.val)
             = resolve(Tail(base), path_relative_from(path, Tail(base)).val)

(***************************************************************************)
(* Properties of exclude_path                                              *)
(***************************************************************************)
\* the glob g covers the whole string s: "*" stands for any run of
\* characters, possibly empty, every other character for itself
RECURSIVE glob_fits(_, _)
glob_fits(g, s) ==
    IF g = <<>> THEN s = <<>>
    ELSE IF Head(g) = "*"
         THEN \E k \in 0..Len(s) : glob_fits(Tail(g), SubSeq(s, k + 1, Len(s)))
         ELSE s # <<>> /\ s[1] = Head(g) /\ glob_fits(Tail(g), Tail(s))

\* the base-relative form of a path of plain names: a relative path is taken
\* as it is, an absolute one is rewritten from the base directory
BaseRelative(r, p) ==
    IF is_relative(p) THEN p
    ELSE LET b == get_base_dir(r)
             k == CommonPrefixLen(p, b)
         IN  ParentDirs(Len(b) - k) \o SubSeq(p, k + 1, Len(p))

SomeGlobFits(raw, r, p) ==
    \E i \in 1..Len(raw) : glob_fits(raw[i], to_str(BaseRelative(r, p)))

\* C1: exclude_path returns true exactly when some raw pattern covers the
\* whole base-relative path string.
C1_ExcludedIffSomeGlobFits ==
    last_op = "exclude_path" =>
        q_result = SomeGlobFits(excluded_files_raw, root, q_path)

\* C2: after each exclude_path call the cache has one entry per raw pattern,
\* the i-th being the compilation of the i-th raw pattern.
C2_CacheMirrorsRaw ==
    last_op = "exclude_path" =>
        /\ Len(excluded_files) = Len(excluded_files_raw)
        /\ \A i \in 1..Len(excluded_files) :
               excluded_files[i] = regex_from_glob(excluded_files_raw[i])

IsPrefix(s, t) == Len(s) <= Len(t) /\ SubSeq(t, 1, Len(s)) = s

\* C3: no step removes or replaces a cached matcher (the cache before is a
\* prefix of the cache after), and a query for a path for which exclude_path
\* has returned true before returns true again.
C3_CacheOnlyGrows ==
    [][/\ IsPrefix(excluded_files, excluded_files')
       /\ (last_op' = "exclude_path" /\ q_path' \in returned_true) => q_result']_vars

\* a second query for an excluded path, made after the raw list has grown
\* and the cache has been recompiled
C3_Witness ==
    /\ last_op = "exclude_path"
    /\ q_path = <<"src", "lib.rs">>
    /\ q_result
    /\ Len(excluded_files_raw) = 2
    /\ Len(excluded_files) > 2
    /\ returned_true = {<<"src", "lib.rs">>, <<"src", "module", "file.rs">>}

(***************************************************************************)
(* Properties of Config::from                                              *)
(***************************************************************************)
\* the file can be loaded: it parses and holds at least one table
Loadable(f) == f.state = "tables" /\ DOMAIN f.tables # {}

\* a call given a --config path has ended
ConfigCallEnded == from_pc \in {"returned", "panicked"} /\ args.config.some

\* C4 as stated: whenever the designated file cannot be loaded, the call
\* returns the profile built from the command line, for a relative as for an
\* absolute path.
C4_LoadFailureFallsBack ==
    (ConfigCallEnded /\ ~Loadable(config_file)) =>
        (from_pc = "returned" /\ conf = args_config(args))

\* C4 amended: the call returns the profile built from the command line when
\* the file cannot be loaded and its path is absolute, or relative and naming
\* a file that exists; given a relative path of a file that does not exist
\* it aborts, in the unwrap of canonicalize.
C4_FallsBackUnlessCanonicalizeFails ==
    (ConfigCallEnded /\ ~Loadable(config_file)) =>
        IF is_relative(args.config.val) /\ config_file.state = "missing"
        THEN from_pc = "panicked"
        ELSE from_pc = "returned" /\ conf = args_config(args)

\* a relative path of a file with no table: the profile of the command line
\* comes back, its debug flag and patterns included
C4_Witness ==
    /\ from_pc = "returned"
    /\ args.config = Some(<<"tarpaulin.toml">>)
    /\ config_file.state = "tables" /\ DOMAIN config_file.tables = {}
    /\ args.debug /\ args.exclude_files # <<>>
    /\ conf.debug /\ conf.excluded_files_raw = args.exclude_files
    /\ conf.config = None

\* the absolute path of the designated file
ResolvedPath(a) ==
    IF is_absolute(a.config.val) THEN a.config.val ELSE current_dir \o a.config.val

\* the profile that the table k of the file describes: the values the table
\* gives, the defaults for the fields it leaves out
FileProfile(f, k, p) ==
    LET b == f.tables[k]
    IN  [name |-> k, config |-> Some(p),
         debug |-> IF b.debug.some THEN b.debug.val ELSE FALSE,
         verbose |-> FALSE,
         test_timeout |-> IF b.test_timeout.some THEN b.test_timeout.val
                          ELSE DefaultTimeout,
         excluded_files |-> <<>>,
         excluded_files_raw |-> IF b.excluded_files_raw.some
                                THEN b.excluded_files_raw.val ELSE <<>>]

\* C5: when the designated file loads, the call returns the first profile of
\* the loaded sequence; the loaded profiles are the tables of the file, each
\* named by its key, carrying the resolved path of the file, with the file's
\* values or the defaults in every other field.
C5_ReturnsFirstLoadedProfile ==
    (from_pc = "returned" /\ args.config.some /\ Loadable(config_file)) =>
        /\ confs # <<>>
        /\ conf = confs[1]
        /\ Len(confs) = Cardinality(DOMAIN config_file.tables)
        /\ {confs[i].name : i \in 1..Len(confs)} = DOMAIN config_file.tables
        /\ \A i \in 1..Len(confs) :
               confs[i] = FileProfile(config_file, confs[i].name, ResolvedPath(args))

\* two tables, a relative path, and a command line whose debug flag and
\* exclusion patterns the returned profile does not carry
C5_Witness ==
    /\ from_pc = "returned"
    /\ args.config = Some(<<"tarpaulin.toml">>)
    /\ Len(confs) = 2
    /\ conf.name = "dev"
    /\ conf.config = Some(<<"/", "w", "tarpaulin.toml">>)
    /\ args.debug /\ ~conf.debug
    /\ args.exclude_files # <<>> /\ conf.excluded_files_raw = <<>>
    /\ confs[2].debug

====
